---- MODULE Spec2Model ----
(***************************************************************************)
(* The message-bus client of integrated-libraries: connect, publish,       *)
(* consume, consumeErrors and the pipeline stages filterOrAck, assertData  *)
(* (dead-letter variant, src/encrypt.ts 56-190) and attemptMessageData     *)
(* (handler variant, src/events.ts 1-92), run against a topic broker.      *)
(*                                                                         *)
(* The broker (exchanges, queues, bindings, per-channel prefetch credit,   *)
(* acknowledgment by delivery tag) is the environment the code talks to;   *)
(* every step the code takes between two awaits is one action.             *)
(*                                                                         *)
(* Spec runs one connection from connect on.  SpecPair starts where connect *)
(* has returned and follows two consume calls on one queue.  SpecPublish    *)
(* starts there too and follows publish, of either variant, call by call.   *)
(* SpecFilter follows the predicate of a schema filter call by call.        *)
(*                                                                         *)
(* Three more specifications cover the rest of the library: SpecTransaction *)
(* is safeTransaction (src/database.ts), SpecHttp the error middlewares of  *)
(* startup (server-http), SpecToken is signToken (src/encrypt.ts 8-46).     *)
(***************************************************************************)
EXTENDS Integers, Sequences, FiniteSets, TLC

VARIABLES
    connStep,     \* connect(): index of the next step of ConnectOrder
    connFailed,   \* connect() rejected
    handle,       \* connect() has returned {publish, consume, consumeErrors}
    setupScript,  \* the topology calls the caller's onConnected makes, in order
    setupPc,      \* onConnected: "idle", "running", "resolved", "rejected"
    setupPos,     \* index of the call of setupScript in progress
    setupStep,    \* index of the next await inside that call
    exchanges,    \* broker: asserted exchanges
    queues,       \* broker: asserted queues
    bindings,     \* broker: <<queue, exchange, pattern>>
    declared,     \* broker: the options each exchange and queue was declared with
    ready,        \* broker: messages waiting in each queue
    pubChan,      \* the publisher channel: "none", "open", "closed"
    published,    \* every publisher.publish call made by the code, in order
    usedEarly,    \* a publish or consume went through the handle while setup ran
    subs,         \* the subscriptions opened by consume / consumeErrors; emits and
                  \* passes list the deliveries whose envelope went to message$.next
                  \* and to a handler, in the order they got there
    dlv,          \* every delivery the broker pushed to a consumer callback
    errTasks,     \* the throwError invocations
    extSent,      \* messages sent by a producer that is not this library
    calls,        \* the publish calls followed one by one, with their outcome
    filterRuns,   \* the runs of a schema filter predicate, call by call
    transactions, \* the safeTransaction calls, step by step
    requests,     \* the failed requests going through the error middlewares
    signCalls     \* the signToken calls with their outcome

vars == <<connStep, connFailed, handle, setupScript, setupPc, setupPos, setupStep,
          exchanges, queues, bindings, declared, ready, pubChan, published, usedEarly,
          subs, dlv, errTasks, extSent, calls, filterRuns, transactions, requests,
          signCalls>>

connVars == <<connStep, connFailed, handle, setupScript, setupPc, setupPos, setupStep>>
topoVars == <<exchanges, queues, bindings, declared>>
otherVars == <<calls, filterRuns, transactions, requests, signCalls>>
busVars == <<connVars, topoVars, ready, pubChan, published, usedEarly, subs, dlv,
             errTasks, extSent>>

----------------------------------------------------------------------------
(* Bounds of the model *)

\* publish calls made by the application
MaxPublish == 2
\* messages sent by another producer
MaxExternal == 1
\* consume calls (consumeErrors is called at most once)
MaxConsumers == 1
\* subscribers attached to the Subject of one consume call
MaxSubscribers == 1
\* the prefetch arguments run from 1 to MaxPrefetch
MaxPrefetch == 2
\* deliveries pushed by the broker, redeliveries included
MaxDeliveries == 3
\* further ackMessage calls on an envelope its handlers have acknowledged
MaxReacks == 1
\* replyData calls on one error record
MaxReplies == 1

----------------------------------------------------------------------------
(* Names *)

AppExchange == "orders"
AppKey == "created"
AppQueue == "orders.created"
ErrorExchange == "error"
ErrorQueue == "errors"
QueueNames == {AppQueue, ErrorQueue}

----------------------------------------------------------------------------
(* Payloads: an object with a field id (a number, or a string holding some *)
(* text) and a field keep that the caller's filterOrAck predicate reads.   *)

Payload(idType, idText, keep) == [idType |-> idType, idText |-> idText, keep |-> keep]

Payloads ==
    { Payload("number", "1", FALSE), Payload("string", "1", TRUE),
      Payload("string", "x", TRUE) }

NumericTexts == {"1"}

\* JSON.stringify followed by Buffer.from(json, "utf-8"): the wire text of a value
Stringify(value) == [text |-> "json", tree |-> value]

\* a body that is no JSON text, as another producer may put on the exchange
GarbageBody == [text |-> "garbage"]

\* JSON.parse(message.content.toString("utf-8")): the value, or a SyntaxError
CanParse(body) == body.text = "json"
Parse(body) == body.tree

\* Joi.attempt(data, Joi.object({id: Joi.number().required()}), {allowUnknown: true}):
\* a number passes, a string holding a number is converted, anything else is a
\* ValidationError
JoiValid(data) ==
    \/ data.idType = "number"
    \/ data.idType = "string" /\ data.idText \in NumericTexts

JoiValue(data) == [data EXCEPT !.idType = "number"]

JoiErrType == "ValidationError"
JoiErrMessage == "\"id\" must be a number"

\* the caller's predicate filterByMessageData
FilterByMessageData(data) == data.keep

----------------------------------------------------------------------------
(* The broker *)

\* topic match of a binding pattern against a routing key
Matches(pattern, key) == pattern = "#" \/ pattern = key

\* the queues a message published to (exchange, key) is routed to
Routed(exchange, key) ==
    {q \in QueueNames : \E b \in bindings :
        b[1] = q /\ b[2] = exchange /\ Matches(b[3], key)}

\* a message in a queue; src is the index in published of the call that sent it
\* (0 for a message of another producer)
Message(exchange, key, body, src) ==
    [exchange |-> exchange, routingKey |-> key, body |-> body, src |-> src]

\* the queues after the broker accepted a message on an existing exchange
Enqueue(rdy, exchange, key, body, src) ==
    [q \in QueueNames |->
        IF q \in Routed(exchange, key)
        THEN Append(rdy[q], Message(exchange, key, body, src))
        ELSE rdy[q]]

\* what the broker keeps of a declaration: the entity and its options
Declaration(kind, name, type, durable) ==
    [kind |-> kind, name |-> name, type |-> type, durable |-> durable]

\* an assertQueue that declares its exchange without {durable: true}
DeclaredTransient(step, call) ==
    IF step = "assertExchange"
    THEN {Declaration("exchange", call.exchange, "topic", call.op = "assertExchange")}
    ELSE IF step = "assertQueue"
    THEN {Declaration("queue", call.queue, "", TRUE)}
    ELSE {}

\* the declaration a request carries: publisher.assertExchange(exchange, "topic",
\* {durable: true}) and publisher.assertQueue(queue, {durable: true}); a binding
\* declares nothing
Declared(step, call) ==
    IF step = "assertExchange"
    THEN {Declaration("exchange", call.exchange, "topic", TRUE)}
    ELSE IF step = "assertQueue"
    THEN {Declaration("queue", call.queue, "", TRUE)}
    ELSE {}

\* a declaration of an entity the broker holds with other options (406)
Conflicts(step, call) ==
    \E new \in Declared(step, call) : \E old \in declared :
        old.kind = new.kind /\ old.name = new.name /\ old # new

\* the publisher channel's answer to one topology request: accepted, unless the
\* channel is closed, a binding names an exchange or a queue that does not exist,
\* or an entity is declared again with other options
TopoAccepted(step, call) ==
    /\ pubChan = "open"
    /\ step = "bindQueue" => (call.queue \in queues /\ call.exchange \in exchanges)
    /\ ~Conflicts(step, call)

TopoExchanges(step, call) ==
    IF step = "assertExchange" THEN exchanges \cup {call.exchange} ELSE exchanges

TopoQueues(step, call) ==
    IF step = "assertQueue" THEN queues \cup {call.queue} ELSE queues

TopoBindings(step, call) ==
    IF step = "bindQueue"
    THEN bindings \cup {<<call.queue, call.exchange, call.routingKey>>}
    ELSE bindings

\* one topology request sent on the publisher channel; a refused request on an
\* open channel is a channel error, and the broker closes the channel
Topology(step, call) ==
    IF TopoAccepted(step, call)
    THEN /\ exchanges' = TopoExchanges(step, call)
         /\ queues' = TopoQueues(step, call)
         /\ bindings' = TopoBindings(step, call)
         /\ declared' = declared \cup Declared(step, call)
         /\ pubChan' = pubChan
    ELSE /\ UNCHANGED <<exchanges, queues, bindings, declared>>
         /\ pubChan' = IF pubChan = "open" THEN "closed" ELSE pubChan

----------------------------------------------------------------------------
(* connect(onConnected) *)

Call(op, exchange, key, queue) ==
    [op |-> op, exchange |-> exchange, routingKey |-> key, queue |-> queue]

\* an assertQueue that binds before it asserts the queue
BindBeforeQueue == <<"assertExchange", "bindQueue", "assertQueue">>

\* assertQueue(exchange, routingKey, queue): its three awaits, in order
AssertQueueOrder == <<"assertExchange", "assertQueue", "bindQueue">>

\* the awaits of one call on the initializer handed to onConnected
CallSteps(call) ==
    IF call.op = "assertExchange" THEN <<"assertExchange">> ELSE AssertQueueOrder

\* the callbacks the model runs connect with
SetupScripts ==
    { <<>>,
      << Call("assertExchange", AppExchange, "", ""),
         Call("assertQueue", AppExchange, AppKey, AppQueue) >> }

\* a connect that does not wait for onConnected before it returns
ReturnBeforeSetup == <<"connect", "createChannel", "return", "onConnected">>

\* connect(): what it awaits, in order, before it returns the handle
ConnectOrder == <<"connect", "createChannel", "onConnected", "return">>

ConnectAt(name) ==
    /\ ~connFailed
    /\ connStep <= Len(ConnectOrder)
    /\ ConnectOrder[connStep] = name

\* await amqp.connect(env.MQ_HOST)
ConnectOpen ==
    /\ ConnectAt("connect")
    /\ connStep' = connStep + 1
    /\ UNCHANGED <<connFailed, handle, setupScript, setupPc, setupPos, setupStep,
                   exchanges, queues, bindings, declared, ready, pubChan, published,
                   usedEarly, subs, dlv, errTasks, extSent>>
    /\ UNCHANGED otherVars

\* await connection.createChannel()
ConnectChannel ==
    /\ ConnectAt("createChannel")
    /\ connStep' = connStep + 1
    /\ pubChan' = "open"
    /\ UNCHANGED <<connFailed, handle, setupScript, setupPc, setupPos, setupStep,
                   exchanges, queues, bindings, declared, ready, published,
                   usedEarly, subs, dlv, errTasks, extSent>>
    /\ UNCHANGED otherVars

\* amqp.connect or createChannel rejects: connect rejects
ConnectReject ==
    /\ ConnectAt("connect") \/ ConnectAt("createChannel")
    /\ connFailed' = TRUE
    /\ UNCHANGED <<connStep, handle, setupScript, setupPc, setupPos, setupStep,
                   exchanges, queues, bindings, declared, ready, pubChan, published,
                   usedEarly, subs, dlv, errTasks, extSent>>
    /\ UNCHANGED otherVars

\* onConnected({assertExchange, assertQueue}) is called
SetupInvoke ==
    /\ ConnectAt("onConnected")
    /\ setupPc = "idle"
    /\ setupPc' = "running"
    /\ UNCHANGED <<connStep, connFailed, handle, setupScript, setupPos, setupStep,
                   exchanges, queues, bindings, declared, ready, pubChan, published,
                   usedEarly, subs, dlv, errTasks, extSent>>
    /\ UNCHANGED otherVars

\* the callback's next await: one topology request; a refused request rejects the
\* callback
SetupStep ==
    /\ setupPc = "running"
    /\ setupPos <= Len(setupScript)
    /\ LET call == setupScript[setupPos]
           steps == CallSteps(call)
           step == steps[setupStep]
       IN /\ Topology(step, call)
          /\ IF ~TopoAccepted(step, call)
             THEN /\ setupPc' = "rejected"
                  /\ UNCHANGED <<setupPos, setupStep>>
             ELSE /\ setupPc' = setupPc
                  /\ IF setupStep < Len(steps)
                     THEN /\ setupStep' = setupStep + 1
                          /\ setupPos' = setupPos
                     ELSE /\ setupStep' = 1
                          /\ setupPos' = setupPos + 1
    /\ UNCHANGED <<connStep, connFailed, handle, setupScript, ready, published,
                   usedEarly, subs, dlv, errTasks, extSent>>
    /\ UNCHANGED otherVars

\* the broker refuses a request of the callback (a TopologyError): it rejects
SetupReject ==
    /\ setupPc = "running"
    /\ setupPos <= Len(setupScript)
    /\ setupPc' = "rejected"
    /\ UNCHANGED <<connStep, connFailed, handle, setupScript, setupPos, setupStep,
                   exchanges, queues, bindings, declared, ready, pubChan, published,
                   usedEarly, subs, dlv, errTasks, extSent>>
    /\ UNCHANGED otherVars

\* the callback has made all its calls: its promise resolves
SetupResolve ==
    /\ setupPc = "running"
    /\ setupPos > Len(setupScript)
    /\ setupPc' = "resolved"
    /\ UNCHANGED <<connStep, connFailed, handle, setupScript, setupPos, setupStep,
                   exchanges, queues, bindings, declared, ready, pubChan, published,
                   usedEarly, subs, dlv, errTasks, extSent>>
    /\ UNCHANGED otherVars

\* await onConnected(...) settles: connect goes on, or rejects with the callback
ConnectAwaited ==
    /\ ConnectAt("onConnected")
    /\ setupPc \in {"resolved", "rejected"}
    /\ IF setupPc = "resolved"
       THEN connStep' = connStep + 1 /\ connFailed' = connFailed
       ELSE connFailed' = TRUE /\ connStep' = connStep
    /\ UNCHANGED <<handle, setupScript, setupPc, setupPos, setupStep,
                   exchanges, queues, bindings, declared, ready, pubChan, published,
                   usedEarly, subs, dlv, errTasks, extSent>>
    /\ UNCHANGED otherVars

\* return { publish, consume, consumeErrors }
ConnectReturn ==
    /\ ConnectAt("return")
    /\ handle' = TRUE
    /\ connStep' = connStep + 1
    /\ UNCHANGED <<connFailed, setupScript, setupPc, setupPos, setupStep,
                   exchanges, queues, bindings, declared, ready, pubChan, published,
                   usedEarly, subs, dlv, errTasks, extSent>>
    /\ UNCHANGED otherVars

\* the callback has completed: every call it made has finished
SetupDone == setupPc = "resolved"


----------------------------------------------------------------------------
(* publish(exchange, routingKey, data, priority?) *)

\* publisher.publish on a closed channel throws before anything is sent
PublishSent == pubChan = "open"

\* the entry of published for one publisher.publish call: the data publish was
\* given, what was sent, which
\* function sent it (by) for which delivery (origin), and what the broker made
\* of it: whether the exchange existed and the queues the message reached
PublishEntry(exchange, key, value, by, origin) ==
    [exchange |-> exchange, routingKey |-> key, data |-> value,
     body |-> Stringify(value), by |-> by, origin |-> origin,
     accepted |-> exchange \in exchanges, reached |-> Routed(exchange, key)]

\* publish(): JSON.stringify, Buffer.from, publisher.publish. The broker routes
\* the message, or closes the channel when the exchange does not exist
Publish(exchange, key, value, by, origin) ==
    IF PublishSent
    THEN /\ published' = Append(published, PublishEntry(exchange, key, value, by, origin))
         /\ IF exchange \in exchanges
            THEN /\ ready' = Enqueue(ready, exchange, key, Stringify(value),
                                     Len(published) + 1)
                 /\ pubChan' = pubChan
            ELSE /\ ready' = ready
                 /\ pubChan' = "closed"
    ELSE UNCHANGED <<published, ready, pubChan>>

AppPublishes == Cardinality({i \in 1..Len(published) : published[i].by = "app"})

\* the application publishes a payload through the handle
AppPublish ==
    /\ handle
    /\ AppPublishes < MaxPublish
    /\ \E value \in Payloads : Publish(AppExchange, AppKey, value, "app", 0)
    /\ usedEarly' = (usedEarly \/ ~SetupDone)
    /\ UNCHANGED <<connVars, topoVars, subs, dlv, errTasks, extSent>>
    /\ UNCHANGED otherVars

\* another producer sends a body that is no JSON text to the same exchange
ExternalPublish ==
    /\ extSent < MaxExternal
    /\ AppExchange \in exchanges
    /\ extSent' = extSent + 1
    /\ ready' = Enqueue(ready, AppExchange, AppKey, GarbageBody, 0)
    /\ UNCHANGED <<connVars, topoVars, pubChan, published, usedEarly, subs, dlv, errTasks>>
    /\ UNCHANGED otherVars

----------------------------------------------------------------------------
(* consume(queue, prefetch) and consumeErrors(prefetch) *)

\* the handler of consumeErrors is subscribed without stages
ErrorsPipeline == <<>>

\* a listener that starts consuming before it sets the prefetch
ConsumeBeforePrefetch == <<"createChannel", "consume", "prefetch">>

\* the async function started by consume: what it awaits, in order
ConsumerStartupOrder == <<"createChannel", "prefetch", "consume">>

NewSub(kind, queue, prefetch, subscribers) ==
    [kind |-> kind, queue |-> queue, prefetch |-> prefetch, step |-> 1,
     chan |-> "none", chanId |-> 0, chanPrefetch |-> 0, consuming |-> FALSE,
     unacked |-> {},
     subscribers |-> subscribers, emits |-> <<>>, passes |-> <<>>]

Subscriptions(kind) == {i \in 1..Len(subs) : subs[i].kind = kind}

\* consume(queue, prefetch): a new Subject, returned at once; the listener
\* starts in the background
Consume ==
    /\ handle
    /\ Cardinality(Subscriptions("consume")) < MaxConsumers
    /\ \E n \in 1..MaxPrefetch : subs' = Append(subs, NewSub("consume", AppQueue, n, <<>>))
    /\ usedEarly' = (usedEarly \/ ~SetupDone)
    /\ UNCHANGED <<connVars, topoVars, ready, pubChan, published, dlv, errTasks, extSent>>
    /\ UNCHANGED otherVars

\* a further consume call on the same queue, for the runs with two consumers
ConsumeFurther ==
    /\ handle
    /\ Cardinality(Subscriptions("consume")) = MaxConsumers
    /\ \E n \in 1..MaxPrefetch : subs' = Append(subs, NewSub("consume", AppQueue, n, <<>>))
    /\ usedEarly' = (usedEarly \/ ~SetupDone)
    /\ UNCHANGED <<connVars, topoVars, ready, pubChan, published, dlv, errTasks, extSent>>
    /\ UNCHANGED otherVars

\* consumeErrors(prefetch).subscribe(handler)
ConsumeErrors ==
    /\ handle
    /\ Subscriptions("consumeErrors") = {}
    /\ \E n \in 1..MaxPrefetch :
          subs' = Append(subs, NewSub("consumeErrors", ErrorQueue, n, <<ErrorsPipeline>>))
    /\ usedEarly' = (usedEarly \/ ~SetupDone)
    /\ UNCHANGED <<connVars, topoVars, ready, pubChan, published, dlv, errTasks, extSent>>
    /\ UNCHANGED otherVars

\* one await of the listener: createChannel, prefetch(n), consume(queue, callback).
\* consume on a queue that does not exist is a channel error (404): the broker
\* closes the channel and the listener stops
ListenerAfter(sub, name) ==
    CASE name = "createChannel" -> [sub EXCEPT !.chan = "open", !.step = @ + 1]
      [] name = "prefetch" -> [sub EXCEPT !.chanPrefetch = sub.prefetch, !.step = @ + 1]
      [] name = "consume" ->
            IF sub.queue \in queues
            THEN [sub EXCEPT !.consuming = TRUE, !.step = @ + 1]
            ELSE [sub EXCEPT !.chan = "closed", !.step = Len(ConsumerStartupOrder) + 2]

\* one listener channel that every consume call uses
ListenerChannelShared(s) == 1

\* const listener = await connection.createChannel(), inside the function each
\* consume call starts: a channel of its own, numbered as the connection opens them
ListenerChannel(s) == 1 + Cardinality({t \in 1..Len(subs) : subs[t].chan # "none"})

ListenerStep(s) ==
    /\ subs[s].step <= Len(ConsumerStartupOrder)
    /\ LET name == ConsumerStartupOrder[subs[s].step]
           after == ListenerAfter(subs[s], name)
       IN subs' = [subs EXCEPT ![s] =
                      IF name = "createChannel"
                      THEN [after EXCEPT !.chanId = ListenerChannel(s)]
                      ELSE after]
    /\ UNCHANGED <<connVars, topoVars, ready, pubChan, published, usedEarly, dlv,
                   errTasks, extSent>>
    /\ UNCHANGED otherVars

\* the listener asked to consume from a queue that did not exist
ConsumeRefused(sub) == sub.step = Len(ConsumerStartupOrder) + 2

\* the pipelines a subscriber attaches to the Subject of consume
Pipelines ==
    { <<"filterOrAck", "assertData">>, <<"attemptMessageData", "filterOrAck">> }

\* message$.pipe(...).subscribe(handler) on the Subject of consume; a further
\* subscriber attaches the same chain
Subscribe(s) ==
    /\ subs[s].kind = "consume"
    /\ Len(subs[s].subscribers) < MaxSubscribers
    /\ \E p \in Pipelines :
          /\ subs[s].subscribers # <<>> => p = subs[s].subscribers[1]
          /\ subs' = [subs EXCEPT ![s].subscribers = Append(@, p)]
    /\ UNCHANGED <<connVars, topoVars, ready, pubChan, published, usedEarly, dlv,
                   errTasks, extSent>>
    /\ UNCHANGED otherVars

----------------------------------------------------------------------------
(* The pipeline stages.  A stage reads message.data and answers: whether the *)
(* envelope passes, the data it leaves in the envelope, how many times it    *)
(* called message.ackMessage(), message.throwError(error) and onError.       *)

StageResult(pass, data, acks, errs, handled) ==
    [pass |-> pass, data |-> data, acks |-> acks, errs |-> errs, handled |-> handled]

\* a filterOrAck that acknowledges what fails the predicate and lets it through
FilterOrAckNoDrop(data) ==
    IF FilterByMessageData(data)
    THEN StageResult(TRUE, data, 0, 0, 0)
    ELSE StageResult(TRUE, data, 1, 0, 0)

\* a filterOrAck that drops what fails the predicate without acknowledging it
FilterOrAckNoAck(data) ==
    IF FilterByMessageData(data)
    THEN StageResult(TRUE, data, 0, 0, 0)
    ELSE StageResult(FALSE, data, 0, 0, 0)

\* filterOrAck(filterByMessageData)
FilterOrAck(data) ==
    IF FilterByMessageData(data)
    THEN StageResult(TRUE, data, 0, 0, 0)
    ELSE StageResult(FALSE, data, 1, 0, 0)

\* how many times a stage makes a call
CountOf(order, call) == Cardinality({i \in DOMAIN order : order[i] = call})

\* the catch block of assertData: message.ackMessage(); message.throwError(error)
AssertDataOnFailure == <<"ackMessage", "throwError">>

\* a catch block that tells the handler first and acknowledges afterwards
HandlerBeforeAck == <<"onError", "ackMessage">>

\* the catch block of attemptMessageData: message.ackMessage(); onError(error, message)
AttemptOnFailure == <<"ackMessage", "onError">>

\* an assertData that validates without installing the validated value
AssertDataKeepsRaw(data) ==
    IF JoiValid(data)
    THEN StageResult(TRUE, data, 0, 0, 0)
    ELSE StageResult(FALSE, data, 1, 1, 0)

\* assertData(schema)
AssertData(data) ==
    IF JoiValid(data)
    THEN StageResult(TRUE, JoiValue(data), 0, 0, 0)
    ELSE StageResult(FALSE, data, CountOf(AssertDataOnFailure, "ackMessage"),
                     CountOf(AssertDataOnFailure, "throwError"), 0)

\* an attemptMessageData that acknowledges a refused envelope and tells nobody
AttemptMessageDataSilent(data) ==
    IF JoiValid(data)
    THEN StageResult(TRUE, JoiValue(data), 0, 0, 0)
    ELSE StageResult(FALSE, data, 1, 0, 0)

\* attemptMessageData(schema, onError)
AttemptMessageData(data) ==
    IF JoiValid(data)
    THEN StageResult(TRUE, JoiValue(data), 0, 0, 0)
    ELSE StageResult(FALSE, data, CountOf(AttemptOnFailure, "ackMessage"), 0,
                     CountOf(AttemptOnFailure, "onError"))

Stage(name, data) ==
    CASE name = "filterOrAck" -> FilterOrAck(data)
      [] name = "assertData" -> AssertData(data)
      [] name = "attemptMessageData" -> AttemptMessageData(data)

\* one subscriber's chain of filter operators on one envelope: the stages run in
\* order until one does not pass; the handler gets what passes them all
\* the run record keeps, for every stage entered, its name, the data it read and
\* its answer (trace)
StageEntry(name, data, r) ==
    [stage |-> name, input |-> data, pass |-> r.pass, output |-> r.data,
     acks |-> r.acks, errs |-> r.errs, handled |-> r.handled]

RECURSIVE RunPipeline(_, _)
RunPipeline(stages, data) ==
    IF stages = <<>>
    THEN [result |-> "passed", data |-> data, trace |-> <<>>,
          acks |-> 0, errs |-> 0, handled |-> 0]
    ELSE LET r == Stage(Head(stages), data)
             entry == StageEntry(Head(stages), data, r)
         IN IF ~r.pass
            THEN [result |-> IF r.errs + r.handled > 0 THEN "failed" ELSE "dropped",
                  data |-> r.data, trace |-> <<entry>>,
                  acks |-> r.acks, errs |-> r.errs, handled |-> r.handled]
            ELSE LET rest == RunPipeline(Tail(stages), r.data)
                 IN [rest EXCEPT !.trace = <<entry>> \o @,
                                 !.acks = @ + r.acks, !.errs = @ + r.errs,
                                 !.handled = @ + r.handled]

\* Subject.next(envelope): every subscriber attached now gets the same envelope
\* object, one after the other, so a later subscriber sees the data an earlier
\* one installed
RECURSIVE RunSubscribers(_, _)
RunSubscribers(pipes, data) ==
    IF pipes = <<>> THEN <<>>
    ELSE LET run == RunPipeline(Head(pipes), data)
         IN <<run>> \o RunSubscribers(Tail(pipes), run.data)

RECURSIVE SumOf(_, _)
SumOf(runs, fld) ==
    IF runs = <<>> THEN 0 ELSE Head(runs)[fld] + SumOf(Tail(runs), fld)

Passed(runs) == Cardinality({i \in 1..Len(runs) : runs[i].result = "passed"})

FinalData(runs, data) == IF runs = <<>> THEN data ELSE runs[Len(runs)].data

NoValue == [none |-> TRUE]

----------------------------------------------------------------------------
(* Acknowledgment frames on a consumer channel *)

\* channel.ack on a closed channel throws; on an open one the frame is sent
AckSent(sub) == sub.chan \in {"open", "failing"}

\* the channel after n ack frames for delivery d: the first one for an
\* outstanding tag settles it; a frame for a tag that is not outstanding is a
\* channel error (406), after which the broker closes the channel
AfterAcks(sub, d, n) ==
    IF n = 0 \/ ~AckSent(sub) THEN sub
    ELSE LET known == d \in sub.unacked
             bad == IF known THEN n > 1 ELSE TRUE
         IN [sub EXCEPT !.unacked = @ \ {d},
                        !.chan = IF bad THEN "failing" ELSE @]

\* the broker closes a channel after its error; its outstanding deliveries go
\* back to the head of the queue
RequeueOrder(set) ==
    CHOOSE seq \in [1..Cardinality(set) -> set] :
        /\ \A i, j \in 1..Cardinality(set) : i < j => seq[i] < seq[j]
        /\ \A x \in set : \E i \in 1..Cardinality(set) : seq[i] = x

Requeued(sub) ==
    LET order == RequeueOrder(sub.unacked)
    IN [i \in 1..Len(order) |->
          Message(dlv[order[i]].exchange, dlv[order[i]].routingKey,
                  dlv[order[i]].body, dlv[order[i]].src)]

BrokerClose(s) ==
    /\ subs[s].chan = "failing"
    /\ ready' = [ready EXCEPT ![subs[s].queue] = Requeued(subs[s]) \o @]
    /\ subs' = [subs EXCEPT ![s].chan = "closed", ![s].consuming = FALSE,
                            ![s].unacked = {}]
    /\ UNCHANGED <<connVars, topoVars, pubChan, published, usedEarly, dlv,
                   errTasks, extSent>>
    /\ UNCHANGED otherVars

----------------------------------------------------------------------------
(* The delivery callback of consume *)

\* an errData whose source fields are filled the wrong way round
ErrDataSwapped(exchange, key, sourceData, errType, errMessage) ==
    [sourceExchange |-> key, sourceRoutingKey |-> exchange, sourceData |-> sourceData,
     errType |-> errType, errMessage |-> errMessage]

\* throwError(err): const errData = {...}
ErrData(exchange, key, sourceData, errType, errMessage) ==
    [sourceExchange |-> exchange, sourceRoutingKey |-> key, sourceData |-> sourceData,
     errType |-> errType, errMessage |-> errMessage]

\* throwError: await assertQueue("error", errType, "errors"); await publish(...)
ThrowErrorOrder == AssertQueueOrder \o <<"publish">>

NewErrTask(d, errData) ==
    [d |-> d, step |-> 1, state |-> "running", errData |-> errData]

\* the throwError calls one delivery starts: one for each subscriber whose
\* assertData refused the envelope
RECURSIVE NewErrTasks(_, _, _)
NewErrTasks(runs, d, errData) ==
    IF runs = <<>> THEN <<>>
    ELSE (IF Head(runs).errs > 0 THEN <<NewErrTask(d, errData)>> ELSE <<>>)
         \o NewErrTasks(Tail(runs), d, errData)

\* a callback that takes the exchange for the routing key and the other way round
ConsumeDeliverySwapped(s, msg) ==
    LET sourceData == Parse(msg.body)
        runs == RunSubscribers(subs[s].subscribers, sourceData)
    IN [sub |-> s, kind |-> "consume", exchange |-> msg.routingKey,
        routingKey |-> msg.exchange, body |-> msg.body, src |-> msg.src,
        emitted |-> TRUE, sourceData |-> sourceData,
        data |-> FinalData(runs, sourceData), runs |-> runs,
        acksSent |-> SumOf(runs, "acks"), appAcks |-> 0, reacks |-> 0, replies |-> 0]

\* a callback that acknowledges the delivery itself when nobody is subscribed
ConsumeDeliveryAutoAck(s, msg) ==
    LET sourceData == Parse(msg.body)
        runs == RunSubscribers(subs[s].subscribers, sourceData)
    IN [sub |-> s, kind |-> "consume", exchange |-> msg.exchange,
        routingKey |-> msg.routingKey, body |-> msg.body, src |-> msg.src,
        emitted |-> TRUE, sourceData |-> sourceData,
        data |-> FinalData(runs, sourceData), runs |-> runs,
        acksSent |-> IF runs = <<>> THEN 1 ELSE SumOf(runs, "acks"),
        appAcks |-> 0, reacks |-> 0, replies |-> 0]

\* the envelope built by the callback of consume and what became of it in
\* message$.next
ConsumeDelivery(s, msg) ==
    LET sourceData == Parse(msg.body)
        runs == RunSubscribers(subs[s].subscribers, sourceData)
    IN [sub |-> s, kind |-> "consume", exchange |-> msg.exchange,
        routingKey |-> msg.routingKey, body |-> msg.body, src |-> msg.src,
        emitted |-> TRUE, sourceData |-> sourceData,
        data |-> FinalData(runs, sourceData), runs |-> runs,
        acksSent |-> SumOf(runs, "acks"), appAcks |-> 0, reacks |-> 0, replies |-> 0]

\* JSON.parse threw inside the callback: no envelope is built and nothing is
\* passed to message$.next
ThrownDelivery(s, kind, msg) ==
    [sub |-> s, kind |-> kind, exchange |-> msg.exchange,
     routingKey |-> msg.routingKey, body |-> msg.body, src |-> msg.src,
     emitted |-> FALSE, sourceData |-> NoValue, data |-> NoValue, runs |-> <<>>,
     acksSent |-> 0, appAcks |-> 0, reacks |-> 0, replies |-> 0]

\* the errMessage built by the callback of consumeErrors: the parsed record, with
\* exchange and routingKey of the delivery and data = sourceData
ErrorsDelivery(s, msg) ==
    LET errMessage == Parse(msg.body)
        runs == RunSubscribers(subs[s].subscribers, errMessage.sourceData)
    IN [sub |-> s, kind |-> "consumeErrors", exchange |-> msg.exchange,
        routingKey |-> msg.routingKey, body |-> msg.body, src |-> msg.src,
        emitted |-> TRUE, sourceData |-> errMessage.sourceData,
        data |-> errMessage.sourceData, runs |-> runs,
        acksSent |-> 0, appAcks |-> 0, reacks |-> 0, replies |-> 0,
        sourceExchange |-> errMessage.sourceExchange,
        sourceRoutingKey |-> errMessage.sourceRoutingKey,
        errType |-> errMessage.errType, errMessage |-> errMessage.errMessage]

Delivery(s, msg) ==
    IF ~CanParse(msg.body) THEN ThrownDelivery(s, subs[s].kind, msg)
    ELSE IF subs[s].kind = "consume" THEN ConsumeDelivery(s, msg)
    ELSE ErrorsDelivery(s, msg)

\* a callback that hands a new envelope on ahead of the ones before it
EmittedOutOfOrder(log, d) == <<d>> \o log

\* the callback runs to its end for one delivery before the next one starts, and
\* Subject.next and filter call on synchronously: an envelope comes after the
\* ones handed on before it
Emitted(log, d) == Append(log, d)

\* the deliveries outstanding on the channel of sub
ChannelUnacked(sub) ==
    UNION {subs[t].unacked :
              t \in {u \in 1..Len(subs) :
                        subs[u].chan # "none" /\ subs[u].chanId = sub.chanId}}

\* the broker has credit for the channel: prefetch 0 is no limit
HasCredit(sub) ==
    sub.chanPrefetch = 0 \/ Cardinality(ChannelUnacked(sub)) < sub.chanPrefetch

\* the broker can push to the consumer of subscription s
CanDeliver(s) ==
    /\ subs[s].chan = "open"
    /\ subs[s].consuming
    /\ HasCredit(subs[s])
    /\ ready[subs[s].queue] # <<>>
    /\ Len(dlv) < MaxDeliveries

\* the broker pushes the head of the queue to the consumer; the callback runs to
\* its end: parse, build the envelope, message$.next with every stage and handler
Deliver(s) ==
    /\ CanDeliver(s)
    /\ LET msg == Head(ready[subs[s].queue])
           d == Len(dlv) + 1
           rec == Delivery(s, msg)
           handed == [subs[s] EXCEPT
                        !.unacked = @ \cup {d},
                        !.emits = IF rec.emitted THEN Emitted(@, d) ELSE @,
                        !.passes = IF Passed(rec.runs) > 0 THEN Emitted(@, d) ELSE @]
       IN /\ dlv' = Append(dlv, rec)
          /\ subs' = [subs EXCEPT ![s] = AfterAcks(handed, d, rec.acksSent)]
          /\ ready' = [ready EXCEPT ![subs[s].queue] = Tail(@)]
          /\ errTasks' = errTasks \o
                NewErrTasks(rec.runs, d,
                    ErrData(rec.exchange, rec.routingKey, rec.sourceData,
                            JoiErrType, JoiErrMessage))
    /\ UNCHANGED <<connVars, topoVars, pubChan, published, usedEarly, extSent>>
    /\ UNCHANGED otherVars

----------------------------------------------------------------------------
(* The application's handlers *)

\* an ackMessage that acknowledges the last delivery its channel has seen
AckFrameLatest(d) ==
    [sub |-> dlv[d].sub,
     tag |-> CHOOSE x \in 1..Len(dlv) :
                /\ dlv[x].sub = dlv[d].sub
                /\ \A y \in 1..Len(dlv) : dlv[y].sub = dlv[d].sub => y <= x]

\* ackMessage = () => listener.ack(message): the channel and the delivery that
\* the envelope's closure holds
AckFrame(d) == [sub |-> dlv[d].sub, tag |-> d]

\* a handler that got the envelope calls its ackMessage: listener.ack(message)
AckCall(d) ==
    LET f == AckFrame(d)
    IN /\ dlv' = [dlv EXCEPT ![d].appAcks = @ + 1,
                             ![f.tag].acksSent = IF AckSent(subs[f.sub]) THEN @ + 1 ELSE @]
       /\ subs' = [subs EXCEPT ![f.sub] = AfterAcks(@, f.tag, 1)]

\* each handler acknowledges the envelope it was given, once
AppAck(d) ==
    /\ dlv[d].appAcks < Passed(dlv[d].runs)
    /\ AckCall(d)
    /\ UNCHANGED <<connVars, topoVars, ready, pubChan, published, usedEarly,
                   errTasks, extSent>>
    /\ UNCHANGED otherVars

\* a handler calls ackMessage of an envelope again
AppAckAgain(d) ==
    /\ Passed(dlv[d].runs) > 0
    /\ dlv[d].appAcks >= Passed(dlv[d].runs)
    /\ dlv[d].reacks < MaxReacks
    /\ LET f == AckFrame(d)
       IN /\ dlv' = [dlv EXCEPT ![d].appAcks = @ + 1, ![d].reacks = @ + 1,
                                ![f.tag].acksSent =
                                    IF AckSent(subs[f.sub]) THEN @ + 1 ELSE @]
          /\ subs' = [subs EXCEPT ![f.sub] = AfterAcks(@, f.tag, 1)]
    /\ UNCHANGED <<connVars, topoVars, ready, pubChan, published, usedEarly,
                   errTasks, extSent>>
    /\ UNCHANGED otherVars

\* a replyData that publishes to where the record itself was delivered from
ReplyToErrorExchange(d) ==
    /\ Publish(dlv[d].exchange, dlv[d].routingKey, dlv[d].data, "replyData", d)
    /\ dlv' = [dlv EXCEPT ![d].replies = @ + 1]
    /\ UNCHANGED subs

\* a replyData that also acknowledges the record it replays
ReplyDataAcks(d) ==
    /\ Publish(dlv[d].sourceExchange, dlv[d].sourceRoutingKey, dlv[d].data, "replyData", d)
    /\ dlv' = [dlv EXCEPT ![d].replies = @ + 1,
                          ![d].acksSent = IF AckSent(subs[dlv[d].sub]) THEN @ + 1 ELSE @]
    /\ subs' = [subs EXCEPT ![dlv[d].sub] = AfterAcks(@, d, 1)]

\* errMessage.replyData(priority?): publish(sourceExchange, sourceRoutingKey, data)
\* and nothing else; the channel of the listener is not touched
ReplyData(d) ==
    /\ Publish(dlv[d].sourceExchange, dlv[d].sourceRoutingKey, dlv[d].data, "replyData", d)
    /\ dlv' = [dlv EXCEPT ![d].replies = @ + 1]
    /\ UNCHANGED subs

\* a handler of consumeErrors replays the record it was given
AppReply(d) ==
    /\ dlv[d].kind = "consumeErrors"
    /\ Passed(dlv[d].runs) > 0
    /\ dlv[d].replies < MaxReplies
    /\ ReplyData(d)
    /\ UNCHANGED <<connVars, topoVars, usedEarly, errTasks, extSent>>
    /\ UNCHANGED otherVars

----------------------------------------------------------------------------
(* throwError(err), one await at a time *)

ErrorCall(task) ==
    Call("assertQueue", ErrorExchange, task.errData.errType, ErrorQueue)

ThrowErrorStep(t) ==
    /\ errTasks[t].state = "running"
    /\ LET task == errTasks[t]
           name == ThrowErrorOrder[task.step]
       IN IF name = "publish"
          THEN /\ Publish(ErrorExchange, task.errData.errType, task.errData,
                          "throwError", task.d)
               /\ errTasks' = [errTasks EXCEPT
                     ![t].state = IF PublishSent THEN "done" ELSE "rejected",
                     ![t].step = @ + 1]
               /\ UNCHANGED topoVars
          ELSE /\ Topology(name, ErrorCall(task))
               /\ errTasks' = [errTasks EXCEPT
                     ![t].state = IF TopoAccepted(name, ErrorCall(task))
                                  THEN IF task.step = Len(ThrowErrorOrder)
                                       THEN "done" ELSE "running"
                                  ELSE "rejected",
                     ![t].step = @ + 1]
               /\ UNCHANGED <<published, ready>>
    /\ UNCHANGED <<connVars, usedEarly, subs, dlv, extSent>>
    /\ UNCHANGED otherVars

----------------------------------------------------------------------------

Init ==
    /\ connStep = 1
    /\ connFailed = FALSE
    /\ handle = FALSE
    /\ setupScript \in SetupScripts
    /\ setupPc = "idle"
    /\ setupPos = 1
    /\ setupStep = 1
    /\ exchanges = {}
    /\ queues = {}
    /\ bindings = {}
    /\ declared = {}
    /\ ready = [q \in QueueNames |-> <<>>]
    /\ pubChan = "none"
    /\ published = <<>>
    /\ usedEarly = FALSE
    /\ subs = <<>>
    /\ dlv = <<>>
    /\ errTasks = <<>>
    /\ extSent = 0
    /\ calls = <<>>
    /\ filterRuns = <<>>
    /\ transactions = <<>>
    /\ requests = <<>>
    /\ signCalls = <<>>

Next ==
    \/ ConnectOpen
    \/ ConnectChannel
    \/ ConnectReject
    \/ SetupInvoke
    \/ SetupStep
    \/ SetupReject
    \/ SetupResolve
    \/ ConnectAwaited
    \/ ConnectReturn
    \/ AppPublish
    \/ ExternalPublish
    \/ Consume
    \/ ConsumeErrors
    \/ \E s \in 1..Len(subs) : ListenerStep(s)
    \/ \E s \in 1..Len(subs) : Subscribe(s)
    \/ \E s \in 1..Len(subs) : Deliver(s)
    \/ \E s \in 1..Len(subs) : BrokerClose(s)
    \/ \E d \in 1..Len(dlv) : AppAck(d)
    \/ \E d \in 1..Len(dlv) : AppAckAgain(d)
    \/ \E d \in 1..Len(dlv) : AppReply(d)
    \/ \E t \in 1..Len(errTasks) : ThrowErrorStep(t)

Spec == Init /\ [][Next]_vars

----------------------------------------------------------------------------
(* Two consumers of one queue.  connect has returned after a callback that    *)
(* asserted the application's exchange, queue and binding; the application    *)
(* publishes, calls consume twice and acknowledges, or does not.  The broker  *)
(* pushes to a consumer whenever it can (weak fairness of Deliver).           *)

PairScript ==
    << Call("assertExchange", AppExchange, "", ""),
       Call("assertQueue", AppExchange, AppKey, AppQueue) >>

PairInit ==
    /\ connStep = Len(ConnectOrder) + 1
    /\ connFailed = FALSE
    /\ handle = TRUE
    /\ setupScript = PairScript
    /\ setupPc = "resolved"
    /\ setupPos = Len(PairScript) + 1
    /\ setupStep = 1
    /\ exchanges = {AppExchange}
    /\ queues = {AppQueue}
    /\ bindings = {<<AppQueue, AppExchange, AppKey>>}
    /\ declared = Declared("assertExchange", PairScript[1])
                     \cup Declared("assertQueue", PairScript[2])
    /\ ready = [q \in QueueNames |-> <<>>]
    /\ pubChan = "open"
    /\ published = <<>>
    /\ usedEarly = FALSE
    /\ subs = <<>>
    /\ dlv = <<>>
    /\ errTasks = <<>>
    /\ extSent = 0
    /\ calls = <<>>
    /\ filterRuns = <<>>
    /\ transactions = <<>>
    /\ requests = <<>>
    /\ signCalls = <<>>

PairNext ==
    \/ AppPublish
    \/ Consume
    \/ ConsumeFurther
    \/ \E s \in 1..Len(subs) : ListenerStep(s)
    \/ \E s \in 1..Len(subs) : Subscribe(s)
    \/ \E s \in 1..Len(subs) : Deliver(s)
    \/ \E d \in 1..Len(dlv) : AppAck(d)
    \/ \E t \in 1..Len(errTasks) : ThrowErrorStep(t)

PairFairness ==
    \A s \in 1..(MaxConsumers + 1) : WF_vars(s <= Len(subs) /\ Deliver(s))

SpecPair == PairInit /\ [][PairNext]_vars /\ PairFairness

----------------------------------------------------------------------------
(* publish, call by call.  The application calls the publish of the handle   *)
(* of either variant with a payload that JSON.stringify takes or refuses,    *)
(* while the write buffer of the publisher channel has room or is full.      *)

\* publish calls followed
MaxCalls == 2

\* an object that refers to itself: JSON.stringify throws a TypeError
CyclicPayload == [idType |-> "number", idText |-> "1", keep |-> TRUE, self |-> "cycle"]

CanStringify(value) == "self" \notin DOMAIN value

CallPayloads == Payloads \cup {CyclicPayload}

\* what the caller has in hand when the call expression has been evaluated and
\* a promise it returned has settled: thrown (the call itself threw), promise
\* ("none" when the call returns no promise), result (the value returned or
\* resolved), and what happened on the channel: sent, and accepted, the boolean
\* publisher.publish returned
Outcome(thrown, promise, result, sent, accepted) ==
    [thrown |-> thrown, promise |-> promise, result |-> result,
     sent |-> sent, accepted |-> accepted]

Bool(b) == IF b THEN "true" ELSE "false"

\* src/events.ts: function publish(...) { ...; return publisher.publish(...) }
PublishHandlerOutcome(value, full) ==
    IF ~CanStringify(value) \/ ~PublishSent
    THEN Outcome(TRUE, "none", "none", FALSE, "none")
    ELSE Outcome(FALSE, "none", Bool(~full), TRUE, Bool(~full))

\* src/encrypt.ts: async function publish(...) { ...; publisher.publish(...) }:
\* what is thrown inside rejects the promise, and the promise of a call that
\* went through resolves to undefined
PublishDeadLetterOutcome(value, full) ==
    IF ~CanStringify(value) \/ ~PublishSent
    THEN Outcome(FALSE, "rejected", "none", FALSE, "none")
    ELSE Outcome(FALSE, "resolved", "undefined", TRUE, Bool(~full))

CallEntry(variant, value, outcome) ==
    [variant |-> variant, value |-> value, outcome |-> outcome]

PublishCall(variant, value, outcome) ==
    /\ handle
    /\ Len(calls) < MaxCalls
    /\ calls' = Append(calls, CallEntry(variant, value, outcome))
    /\ IF outcome.sent
       THEN Publish(AppExchange, AppKey, value, "app", 0)
       ELSE UNCHANGED <<published, ready, pubChan>>
    /\ UNCHANGED <<connVars, topoVars, usedEarly, subs, dlv, errTasks, extSent>>
    /\ UNCHANGED <<filterRuns, transactions, requests, signCalls>>

\* publish of the handler variant is called
PublishHandler ==
    \E value \in CallPayloads : \E full \in BOOLEAN :
        PublishCall("handler", value, PublishHandlerOutcome(value, full))

\* publish of the dead-letter variant is called
PublishDeadLetter ==
    \E value \in CallPayloads : \E full \in BOOLEAN :
        PublishCall("deadLetter", value, PublishDeadLetterOutcome(value, full))

PublishNext == PublishHandler \/ PublishDeadLetter

SpecPublish == PairInit /\ [][PublishNext]_vars

----------------------------------------------------------------------------
(* The predicate of a schema filter, call by call.  An envelope reaches the  *)
(* predicate of assertData or of attemptMessageData; when Joi refuses its    *)
(* data the catch block makes its calls one after the other.  The handler    *)
(* given to attemptMessageData may throw, and the publication that throwError *)
(* of assertData starts may fail later.                                      *)

\* envelopes followed
MaxEnvelopes == 2

SchemaFilters == {"assertData", "attemptMessageData"}

OnFailure(stage) ==
    IF stage = "assertData" THEN AssertDataOnFailure ELSE AttemptOnFailure

FilterRun(stage, data, throws, fails) ==
    LET r == Stage(stage, data)
    IN [stage |-> stage, data |-> r.data,
        state |-> IF r.pass THEN "passed" ELSE "catch",
        todo |-> IF r.pass THEN <<>> ELSE OnFailure(stage),
        log |-> <<>>, onErrorThrows |-> throws, publishFails |-> fails,
        errTask |-> "none"]

FilterSettled(r) == r.state \in {"passed", "dropped", "thrown"} /\ r.errTask # "pending"

\* message$.next hands an envelope to the predicate: Joi.attempt, then return
\* true or enter the catch block
FilterInvoke ==
    \E stage \in SchemaFilters : \E data \in Payloads : \E throws, fails \in BOOLEAN :
        /\ Len(filterRuns) < MaxEnvelopes
        /\ \A i \in DOMAIN filterRuns : FilterSettled(filterRuns[i])
        /\ throws => stage = "attemptMessageData" /\ ~JoiValid(data)
        /\ fails => stage = "assertData" /\ ~JoiValid(data)
        /\ filterRuns' = Append(filterRuns, FilterRun(stage, data, throws, fails))
        /\ UNCHANGED <<busVars, calls, transactions, requests, signCalls>>

\* the next call of the catch block: ackMessage sends the ack, throwError
\* starts its async function and returns a promise, onError runs the caller's
\* handler, whose exception leaves the predicate
FilterCall ==
    /\ filterRuns # <<>>
    /\ LET n == Len(filterRuns)
           r == filterRuns[n]
       IN /\ r.state = "catch"
          /\ r.todo # <<>>
          /\ LET call == Head(r.todo)
                 threw == call = "onError" /\ r.onErrorThrows
             IN filterRuns' = [filterRuns EXCEPT ![n] =
                    [r EXCEPT !.log = Append(@, call),
                              !.todo = IF threw THEN <<>> ELSE Tail(@),
                              !.state = IF threw THEN "thrown" ELSE @,
                              !.errTask = IF call = "throwError" THEN "pending" ELSE @]]
    /\ UNCHANGED <<busVars, calls, transactions, requests, signCalls>>

\* return false
FilterReturn ==
    /\ filterRuns # <<>>
    /\ LET n == Len(filterRuns)
       IN /\ filterRuns[n].state = "catch"
          /\ filterRuns[n].todo = <<>>
          /\ filterRuns' = [filterRuns EXCEPT ![n].state = "dropped"]
    /\ UNCHANGED <<busVars, calls, transactions, requests, signCalls>>

\* the async function of throwError goes on after the predicate has returned:
\* the error record is published, or the publication fails
FilterErrorSettles ==
    /\ filterRuns # <<>>
    /\ LET n == Len(filterRuns)
           r == filterRuns[n]
       IN /\ r.state = "dropped"
          /\ r.errTask = "pending"
          /\ filterRuns' = [filterRuns EXCEPT ![n] =
                [r EXCEPT !.errTask = IF r.publishFails THEN "failed" ELSE "published",
                          !.log = Append(@, IF r.publishFails THEN "publishFailed"
                                                              ELSE "published")]]
    /\ UNCHANGED <<busVars, calls, transactions, requests, signCalls>>

FilterNext == FilterInvoke \/ FilterCall \/ FilterReturn \/ FilterErrorSettles

SpecFilter == PairInit /\ [][FilterNext]_vars

----------------------------------------------------------------------------
(* safeTransaction(handler), one await at a time.  The database answers each *)
(* of transaction(), commit() and rollback() with a promise that resolves or *)
(* rejects; the handler resolves, rejects, or throws before it returns a     *)
(* promise.  A transaction is finished by a commit or a rollback that        *)
(* resolved.                                                                 *)

\* safeTransaction calls followed, one after the other
MaxTransactions == 3

Settlements == {"resolved", "rejected"}

Transaction(pc, db, handler, log, settled) ==
    [pc |-> pc, db |-> db, handler |-> handler, log |-> log, settled |-> settled]

\* the last call is at step pc
TxAt(pc) == transactions # <<>> /\ transactions[Len(transactions)].pc = pc

TxSet(t) ==
    /\ transactions' = [transactions EXCEPT ![Len(transactions)] = t]
    /\ UNCHANGED <<busVars, calls, filterRuns, requests, signCalls>>

\* safeTransaction(handler) is called: database.transaction() is awaited
TxCall ==
    /\ Len(transactions) < MaxTransactions
    /\ \A i \in DOMAIN transactions : transactions[i].settled # "pending"
    /\ transactions' = Append(transactions,
                              Transaction("begin", "none", "pending", <<>>, "pending"))
    /\ UNCHANGED <<busVars, calls, filterRuns, requests, signCalls>>

\* const transaction = await database.transaction(): a rejection leaves the
\* function; otherwise handler(transaction) is called on the open transaction
TxBegin ==
    /\ TxAt("begin")
    /\ \E begun \in Settlements :
          TxSet(IF begun = "rejected"
                THEN Transaction("done", "none", "pending", <<>>, "rejected")
                ELSE Transaction("handler", "open", "pending", <<>>, "pending"))

\* handler(transaction) throws before it returns its promise: neither then nor
\* catch is attached and the exception leaves the function
TxHandlerThrows ==
    /\ TxAt("handler")
    /\ TxSet(Transaction("done", "open", "threw", <<>>, "rejected"))

\* the promise of the handler settles: .then(() => transaction.commit()) runs
\* when it resolves, and the catch callback, transaction.rollback(), when it
\* rejects
TxHandlerSettles ==
    /\ TxAt("handler")
    /\ \E outcome \in Settlements :
          TxSet(IF outcome = "resolved"
                THEN Transaction("commit", "open", outcome, <<"commit">>, "pending")
                ELSE Transaction("rollback", "open", outcome, <<"rollback">>, "pending"))

\* the promise of transaction.commit() settles; the catch is chained behind the
\* then, so its callback runs for a rejected commit as it does for a rejected
\* handler
TxCommitSettles ==
    /\ TxAt("commit")
    /\ LET t == transactions[Len(transactions)]
       IN \E outcome \in Settlements :
             TxSet(IF outcome = "resolved"
                   THEN Transaction("done", "committed", t.handler, t.log, "resolved")
                   ELSE Transaction("rollback", "open", t.handler,
                                    Append(t.log, "rollback"), "pending"))

\* the promise of transaction.rollback() settles: .then(() => error) makes the
\* chain resolve with the error; a rejected rollback rejects the chain
TxRollbackSettles ==
    /\ TxAt("rollback")
    /\ LET t == transactions[Len(transactions)]
       IN \E outcome \in Settlements :
             TxSet(IF outcome = "resolved"
                   THEN Transaction("done", "rolledBack", t.handler, t.log, "resolved")
                   ELSE Transaction("done", "open", t.handler, t.log, "rejected"))

TransactionNext ==
    \/ TxCall
    \/ TxBegin
    \/ TxHandlerThrows
    \/ TxHandlerSettles
    \/ TxCommitSettles
    \/ TxRollbackSettles

SpecTransaction == PairInit /\ [][TransactionNext]_vars

----------------------------------------------------------------------------
(* The error middlewares of startup, one stage at a time.  A route handler   *)
(* wrapped by asyncMiddleware rejects; express hands the error to the error  *)
(* middlewares in the order startup registered them and, behind the last,    *)
(* to its own final handler, which answers 500 when nothing was sent and     *)
(* closes the connection when something was.                                 *)

\* failed requests followed
MaxRequests == 1

WrongParameterStatus == 400
NotFoundStatus == 404
UnauthorizedStatus == 401
ServerErrorStatus == 500

Exception(class, status) == [class |-> class, status |-> status]
NoException == Exception("undefined", 0)
HttpServerException(status) == Exception("HttpServerException", status)

\* what a route handler rejects with
Failures ==
    {Exception(c, 0) : c \in {"ValidationError", "JwtError", "MulterError",
                              "TokenExpiredError", "Error"}}
      \cup {HttpServerException(st) : st \in {NotFoundStatus, UnauthorizedStatus,
                                              ServerErrorStatus}}

\* options.expandExceptionTransform: absent, one that turns a plain Error into
\* a NotFoundException, one that returns undefined for every error
ExpandTransforms == {"none", "maps", "declines"}

\* options.rewriteExceptionHandler: absent, one that sends a response, one that
\* renders a view and so sends later, one that sends nothing
RewriteHandlers == {"none", "responds", "renders", "silent"}

WrongParameterExceptionTransform(error) ==
    IF error.class \in {"ValidationError", "JwtError", "MulterError"}
    THEN HttpServerException(WrongParameterStatus)
    ELSE NoException

ExpandExceptionTransform(option, error) ==
    IF option = "maps" /\ error.class = "Error"
    THEN HttpServerException(NotFoundStatus)
    ELSE NoException

\* a transform middleware without the return behind next(httpServerException)
ExceptionTransformNoReturn(present, transformed, error) ==
    IF present /\ transformed # NoException THEN <<transformed, error>> ELSE <<error>>

\* exceptionTransformMiddleware(transform): the calls of next it makes
ExceptionTransformMiddleware(present, transformed, error) ==
    IF present /\ transformed # NoException THEN <<transformed>> ELSE <<error>>

\* defaultExceptionHandler: the status it sends
DefaultExceptionHandler(error) ==
    IF error.class = "HttpServerException" THEN error.status ELSE ServerErrorStatus

\* asyncMiddleware, the two transforms, the exception handler, the final
\* handler of express
ErrorStages == 1..4
FinalStage == 5

Dispatch(stage, error) == [stage |-> stage, error |-> error]

Request(error, transform, rewrite) ==
    [error |-> error, transform |-> transform, rewrite |-> rewrite,
     pending |-> <<Dispatch(1, error)>>, nexts |-> [i \in ErrorStages |-> 0],
     responses |-> <<>>, deferred |-> <<>>, closed |-> FALSE]

RequestDone(r) == r.pending = <<>> /\ r.deferred = <<>>

\* a request reaches a route handler wrapped by asyncMiddleware
RequestFails ==
    \E error \in Failures : \E transform \in ExpandTransforms :
      \E rewrite \in RewriteHandlers :
        /\ Len(requests) < MaxRequests
        /\ \A i \in DOMAIN requests : RequestDone(requests[i])
        /\ requests' = Append(requests, Request(error, transform, rewrite))
        /\ UNCHANGED <<busVars, calls, filterRuns, transactions, signCalls>>

\* the last request is at the given stage
StageAt(stage) ==
    /\ requests # <<>>
    /\ requests[Len(requests)].pending # <<>>
    /\ Head(requests[Len(requests)].pending).stage = stage

\* the stage has made its calls of next: each one is served before the stage
\* goes on
Advance(r, stage, nextCalls) ==
    [r EXCEPT !.nexts[stage] = @ + Len(nextCalls),
              !.pending = [i \in 1..Len(nextCalls) |-> Dispatch(stage + 1, nextCalls[i])]
                            \o Tail(@)]

RequestSet(r) ==
    /\ requests' = [requests EXCEPT ![Len(requests)] = r]
    /\ UNCHANGED <<busVars, calls, filterRuns, transactions, signCalls>>

\* handler(request, response).then(() => next()).catch(error => next(error))
AsyncMiddleware ==
    /\ StageAt(1)
    /\ LET r == requests[Len(requests)]
       IN RequestSet(Advance(r, 1, <<Head(r.pending).error>>))

\* exceptionTransformMiddleware(wrongParameterExceptionTransform)
WrongParameterStage ==
    /\ StageAt(2)
    /\ LET r == requests[Len(requests)]
           error == Head(r.pending).error
       IN RequestSet(Advance(r, 2,
             ExceptionTransformMiddleware(TRUE, WrongParameterExceptionTransform(error),
                                          error)))

\* exceptionTransformMiddleware(options?.expandExceptionTransform)
ExpandTransformStage ==
    /\ StageAt(3)
    /\ LET r == requests[Len(requests)]
           error == Head(r.pending).error
       IN RequestSet(Advance(r, 3,
             ExceptionTransformMiddleware(r.transform # "none",
                                          ExpandExceptionTransform(r.transform, error),
                                          error)))

\* expandExceptionHandler(options?.rewriteExceptionHandler || defaultExceptionHandler):
\* the handler, then next(error).  A send on a response that was sent throws,
\* and express passes what a middleware throws to the next stage
ExceptionHandlerStage ==
    /\ StageAt(4)
    /\ LET r == requests[Len(requests)]
           error == Head(r.pending).error
           status == DefaultExceptionHandler(error)
           sent == r.responses # <<>>
       IN CASE r.rewrite = "silent" -> RequestSet(Advance(r, 4, <<error>>))
            [] r.rewrite = "renders" ->
                 RequestSet([Advance(r, 4, <<error>>) EXCEPT !.deferred = Append(@, status)])
            [] OTHER ->
                 IF sent
                 THEN RequestSet([r EXCEPT !.pending =
                          <<Dispatch(FinalStage, Exception("Error", 0))>> \o Tail(@)])
                 ELSE RequestSet([Advance(r, 4, <<error>>) EXCEPT
                                     !.responses = Append(@, status)])

\* the final handler of express
FinalHandler ==
    /\ StageAt(FinalStage)
    /\ LET r == requests[Len(requests)]
       IN RequestSet([r EXCEPT !.pending = Tail(@),
                               !.responses = IF @ = <<>> THEN <<ServerErrorStatus>> ELSE @,
                               !.closed = r.responses # <<>>])

\* the view of a rewritten handler is rendered: response.send, which fails on
\* a response that was sent
RenderSettles ==
    /\ requests # <<>>
    /\ LET r == requests[Len(requests)]
       IN /\ r.deferred # <<>>
          /\ RequestSet([r EXCEPT !.deferred = Tail(@),
                                  !.responses = IF @ = <<>> /\ ~r.closed
                                                THEN <<Head(r.deferred)>> ELSE @])

HttpNext ==
    \/ RequestFails
    \/ AsyncMiddleware
    \/ WrongParameterStage
    \/ ExpandTransformStage
    \/ ExceptionHandlerStage
    \/ FinalHandler
    \/ RenderSettles

SpecHttp == PairInit /\ [][HttpNext]_vars

----------------------------------------------------------------------------
(* signToken(userId, roles, permissions, refreshToken?).  Times are seconds  *)
(* since the epoch, as Math.floor(... / 1000) leaves them.  A token is a     *)
(* payload with the mark of the secret it was signed with; verify refuses a  *)
(* token of another secret and a token whose exp its own clock has reached.  *)

\* signToken calls followed
MaxSignCalls == 1

\* latest second at which signToken is called
MaxClock == 2

\* env.JWT_REFRESH_TIME and env.JWT_EXPIRES, in units of the model's clock
AccessLifetime == 1
RefreshLifetime == 2

Users == {"ann", "bob"}

NoToken == [kind |-> "none"]

JwtPayload(sub, hasExp, exp) == [sub |-> sub, hasExp |-> hasExp, exp |-> exp]

\* sign(payload, env.JWT_SECRET)
Sign(payload) == [kind |-> "jwt", payload |-> payload, secret |-> "env.JWT_SECRET"]

\* the refresh tokens a caller may hand in: signed with the secret or not, for
\* either user, without exp or with one around the time of the call
RefreshTokens ==
    {[kind |-> "jwt", payload |-> JwtPayload(sub, hasExp, exp), secret |-> secret] :
        sub \in Users, hasExp \in BOOLEAN, exp \in 0..(MaxClock + 1),
        secret \in {"env.JWT_SECRET", "other"}}

WellFormed(token) == token.payload.hasExp \/ token.payload.exp = 0

\* verify(token, env.JWT_SECRET) at the second clock: the payload, or the
\* error it throws
Verify(token, clock) ==
    CASE token.secret # "env.JWT_SECRET" ->
           [error |-> "JsonWebTokenError", payload |-> token.payload]
      [] token.payload.hasExp /\ clock >= token.payload.exp ->
           [error |-> "TokenExpiredError", payload |-> token.payload]
      [] OTHER -> [error |-> "none", payload |-> token.payload]

Thrown(error) == [error |-> error, accessToken |-> NoToken, refreshToken |-> NoToken]
Returned(access, refresh) ==
    [error |-> "none", accessToken |-> access, refreshToken |-> refresh]

\* signToken called at second now; verify reads the clock itself, at that
\* second or a later one
SignToken(userId, refreshToken, now, clock) ==
    LET accessToken == Sign(JwtPayload(userId, TRUE, now + AccessLifetime))
        verified == Verify(refreshToken, clock)
    IN IF refreshToken # NoToken
       THEN CASE verified.error # "none" -> Thrown(verified.error)
              [] verified.payload.sub # userId -> Thrown("JwtError")
              [] ~verified.payload.hasExp \/ verified.payload.exp = 0 -> Thrown("JwtError")
              [] verified.payload.exp < now -> Thrown("JwtError")
              [] OTHER -> Returned(accessToken, refreshToken)
       ELSE Returned(accessToken, Sign(JwtPayload(userId, TRUE, now + RefreshLifetime)))

SignTokenCall ==
    \E userId \in Users : \E refreshToken \in {NoToken} \cup RefreshTokens :
      \E now \in 1..MaxClock : \E clock \in {now, now + 1} :
        /\ Len(signCalls) < MaxSignCalls
        /\ refreshToken # NoToken => WellFormed(refreshToken)
        /\ refreshToken = NoToken => clock = now
        /\ signCalls' = Append(signCalls,
              [userId |-> userId, refreshToken |-> refreshToken, now |-> now,
               clock |-> clock, outcome |-> SignToken(userId, refreshToken, now, clock)])
        /\ UNCHANGED <<busVars, calls, filterRuns, transactions, requests>>

SpecToken == PairInit /\ [][SignTokenCall]_vars

----------------------------------------------------------------------------
(* Properties *)

Deliveries == 1..Len(dlv)
Runs(d) == 1..Len(dlv[d].runs)

\* the envelope of d went through one chain of stages only, and every handler
\* that got it called ackMessage at most once
OnePipeline(d) ==
    /\ dlv[d].kind = "consume"
    /\ Len(dlv[d].runs) <= 1
    /\ dlv[d].appAcks <= Passed(dlv[d].runs)

\* C1: an envelope of consume that goes through one composition of filterOrAck
\* and schema stages, followed by a handler that acknowledges what it is given,
\* has at most one acknowledgment sent to the broker, whether it is dropped,
\* passed through or forwarded to the error path.
C1_AtMostOneAck ==
    \A d \in Deliveries : OnePipeline(d) => dlv[d].acksSent <= 1

\* one envelope was passed through and acknowledged by its handler, another was
\* acknowledged by the stage that dropped it or forwarded it to the error path
C1_Witness ==
    \E d1, d2 \in Deliveries :
        /\ OnePipeline(d1) /\ OnePipeline(d2)
        /\ Len(dlv[d1].runs) = 1 /\ dlv[d1].runs[1].result = "passed"
        /\ dlv[d1].appAcks = 1 /\ dlv[d1].acksSent = 1
        /\ Len(dlv[d2].runs) = 1 /\ dlv[d2].runs[1].result \in {"dropped", "failed"}
        /\ dlv[d2].acksSent = 1

C3_OneShotAck ==
    \A d \in Deliveries : dlv[d].acksSent <= 1

SchemaStages == {"assertData", "attemptMessageData"}

\* the entries of the schema filter in the runs of delivery d: <<run, entry>>
SchemaEntries(d) ==
    {re \in Runs(d) \X (1..2) :
        /\ re[2] <= Len(dlv[d].runs[re[1]].trace)
        /\ dlv[d].runs[re[1]].trace[re[2]].stage \in SchemaStages}

\* C4: an envelope whose payload satisfies the schema passes the schema filter
\* with the validated value installed as its data and without an acknowledgment
\* by the filter; one whose payload violates the schema is never passed through
\* and its delivery is acknowledged.
C4_SchemaFilter ==
    \A d \in Deliveries : \A re \in SchemaEntries(d) :
        LET run == dlv[d].runs[re[1]]
            e == run.trace[re[2]]
        IN IF JoiValid(e.input)
           THEN /\ e.pass
                /\ e.output = JoiValue(e.input)
                /\ e.acks = 0
                /\ run.result = "passed" =>
                      /\ run.data = JoiValue(e.input)
                      /\ (Len(dlv[d].runs) = 1 /\ dlv[d].appAcks = 0) =>
                            dlv[d].acksSent = 0
           ELSE /\ ~e.pass
                /\ run.result # "passed"
                /\ Passed(dlv[d].runs) < Len(dlv[d].runs)
                /\ dlv[d].acksSent >= 1
                /\ d \notin subs[dlv[d].sub].unacked

\* a payload converted by the schema was passed through, and a payload violating
\* it was refused
C4_Witness ==
    \E d1, d2 \in Deliveries :
        /\ \E re \in SchemaEntries(d1) :
              /\ dlv[d1].runs[re[1]].result = "passed"
              /\ dlv[d1].runs[re[1]].trace[re[2]].input.idType = "string"
              /\ dlv[d1].runs[re[1]].data.idType = "number"
        /\ \E re \in SchemaEntries(d2) : ~dlv[d2].runs[re[1]].trace[re[2]].pass

Published == 1..Len(published)
Replays == {i \in Published : published[i].by = "replyData"}

\* C5: replyData publishes to the exchange and routing key of the delivery that
\* failed, as throwError recorded them, and never to the exchange or routing key
\* under which the error record itself was delivered.
C5_ReplayToSource ==
    \A i \in Replays :
        LET p == published[i]
            e == dlv[p.origin]
            t == published[e.src]
            d0 == dlv[t.origin]
        IN /\ t.by = "throwError"
           /\ p.exchange = d0.exchange
           /\ p.routingKey = d0.routingKey
           /\ p.body = d0.body
           /\ p.exchange # ErrorExchange
           /\ p.exchange # e.exchange
           /\ p.routingKey # e.routingKey

\* an error record was replayed and the replay reached the application's queue
C5_Witness ==
    \E i \in Replays : published[i].accepted /\ AppQueue \in published[i].reached

\* every call of the callback has had its effect on the broker
SetupApplied ==
    \A k \in 1..Len(setupScript) :
        LET call == setupScript[k]
        IN /\ call.exchange \in exchanges
           /\ call.op = "assertQueue" =>
                 /\ call.queue \in queues
                 /\ <<call.queue, call.exchange, call.routingKey>> \in bindings

\* C6: the handle is returned only after the topology callback has completed, no
\* publish or consume goes through it earlier, and when the connection, the
\* channel or the callback fails no handle is returned.
C6_HandleAfterSetup ==
    /\ handle => (SetupDone /\ SetupApplied /\ pubChan # "none")
    /\ ~usedEarly
    /\ (connFailed \/ setupPc = "rejected") => ~handle

\* the handle was returned after a callback that asserted topology, and used
C6_Witness ==
    /\ handle /\ setupScript # <<>>
    /\ published # <<>> /\ subs # <<>>

ErrRecords(d) ==
    {i \in Published : published[i].by = "throwError" /\ published[i].origin = d}

ErrTasksOf(d) == {t \in 1..Len(errTasks) : errTasks[t].d = d}

\* the runs of d that ended in assertData refusing the envelope
RefusedByAssertData(d) ==
    {r \in Runs(d) :
        /\ dlv[d].runs[r].result = "failed"
        /\ dlv[d].runs[r].trace[Len(dlv[d].runs[r].trace)].stage = "assertData"}

\* C8: an envelope delivered from exchange E with routing key K that fails
\* assertData has its delivery acknowledged and gets one error record, published
\* to exchange "error" with its errType as routing key and carrying E, K, the raw
\* source payload, the error type and the error message.
C8_ErrorRecord ==
    \A d \in Deliveries :
        /\ Cardinality(ErrTasksOf(d)) = Cardinality(RefusedByAssertData(d))
        /\ Cardinality(ErrRecords(d)) =
              Cardinality({t \in ErrTasksOf(d) : errTasks[t].state = "done"})
        /\ RefusedByAssertData(d) # {} =>
              /\ dlv[d].acksSent >= 1
              /\ d \notin subs[dlv[d].sub].unacked
        /\ \A i \in ErrRecords(d) :
              /\ published[i].exchange = ErrorExchange
              /\ published[i].routingKey = Parse(published[i].body).errType
              /\ published[i].accepted
              /\ Parse(published[i].body) =
                    [sourceExchange |-> dlv[d].exchange,
                     sourceRoutingKey |-> dlv[d].routingKey,
                     sourceData |-> Parse(dlv[d].body),
                     errType |-> JoiErrType, errMessage |-> JoiErrMessage]

\* throwError has completed for an envelope from the application's exchange
C8_Witness ==
    \E d \in Deliveries :
        /\ dlv[d].exchange = AppExchange /\ dlv[d].routingKey = AppKey
        /\ Cardinality(RefusedByAssertData(d)) = 1
        /\ Cardinality(ErrRecords(d)) = 1
        /\ \A t \in ErrTasksOf(d) : errTasks[t].state = "done"

\* C7: throwError publishes to exchange "error" only once that exchange, queue
\* "errors" and their binding exist, and consumeErrors never asks to consume
\* from queue "errors" before that queue has been asserted.
C7_ErrorTopologyFirst ==
    /\ \A i \in Published : published[i].by = "throwError" =>
          published[i].accepted /\ ErrorQueue \in published[i].reached
    /\ \A s \in Subscriptions("consumeErrors") : ~ConsumeRefused(subs[s])

\* C9: a delivery whose body cannot be decoded is passed on to the subscribers.
C9_UndecodablePassedOn ==
    \A d \in Deliveries : ~CanParse(dlv[d].body) => dlv[d].emitted

\* the delivery was rejected: not decoded, dropped by the predicate or refused
\* by the schema
Rejected(d) ==
    \/ ~dlv[d].emitted
    \/ \E r \in Runs(d) : dlv[d].runs[r].result \in {"dropped", "failed"}

\* C10: every rejected delivery is acknowledged, so it does not keep prefetch
\* credit of its subscription.
C10_RejectedAcknowledged ==
    \A d \in Deliveries : Rejected(d) => dlv[d].acksSent >= 1

----------------------------------------------------------------------------
(* filterOrAck, attemptMessageData and assertQueue on their own *)

\* the entries of stage name in the runs of delivery d: <<run, entry>>
StageEntries(d, name) ==
    {re \in Runs(d) \X (1..2) :
        /\ re[2] <= Len(dlv[d].runs[re[1]].trace)
        /\ dlv[d].runs[re[1]].trace[re[2]].stage = name}

\* C13: an envelope entering filterOrAck on whose payload the predicate holds is
\* passed through unchanged without the filter acknowledging it; one on whose
\* payload the predicate fails is acknowledged exactly once by the filter and
\* dropped, no error is raised and no error record is started for it.
C13_FilterOrAck ==
    \A d \in Deliveries : \A re \in StageEntries(d, "filterOrAck") :
        LET run == dlv[d].runs[re[1]]
            e == run.trace[re[2]]
        IN IF FilterByMessageData(e.input)
           THEN /\ e.pass
                /\ e.output = e.input
                /\ e.acks = 0
           ELSE /\ ~e.pass
                /\ e.acks = 1
                /\ e.errs = 0 /\ e.handled = 0
                /\ run.result = "dropped"
                /\ run.acks = 1 /\ run.errs = 0 /\ run.handled = 0
                /\ Len(dlv[d].runs) = 1 =>
                      /\ ErrTasksOf(d) = {}
                      /\ ErrRecords(d) = {}
                      /\ dlv[d].acksSent = 1
                      /\ d \notin subs[dlv[d].sub].unacked

\* filterOrAck has passed one envelope on and dropped another
C13_Witness ==
    \E d1, d2 \in Deliveries :
        /\ \E re \in StageEntries(d1, "filterOrAck") :
              /\ dlv[d1].runs[re[1]].trace[re[2]].pass
              /\ dlv[d1].runs[re[1]].result = "passed"
        /\ \E re \in StageEntries(d2, "filterOrAck") :
              /\ ~dlv[d2].runs[re[1]].trace[re[2]].pass
              /\ dlv[d2].acksSent = 1

\* the assertQueue call the callback of connect is in, if any
SetupCalls ==
    IF setupPc = "running" /\ setupPos <= Len(setupScript)
    THEN {[call |-> setupScript[setupPos], step |-> CallSteps(setupScript[setupPos])[setupStep]]}
    ELSE {}

\* the assertQueue calls throwError is in
ErrorCalls ==
    {[call |-> ErrorCall(errTasks[t]), step |-> ThrowErrorOrder[errTasks[t].step]] :
        t \in {u \in 1..Len(errTasks) :
                  errTasks[u].state = "running" /\ errTasks[u].step <= Len(AssertQueueOrder)}}

\* the throwError calls whose assertQueue has returned
ErrorAsserted ==
    {t \in 1..Len(errTasks) :
        errTasks[t].state # "rejected" /\ errTasks[t].step > Len(AssertQueueOrder)}

Bound(call) ==
    /\ call.exchange \in exchanges
    /\ call.queue \in queues
    /\ <<call.queue, call.exchange, call.routingKey>> \in bindings

\* C19: assertQueue asserts the exchange, then the queue, then the binding: the
\* binding is requested only when its exchange and its queue exist, whether or
\* not the exchange was asserted before the call, and when the call has returned
\* the exchange, the queue and the binding exist.
C19_AssertQueueOrder ==
    /\ \A c \in SetupCalls \cup ErrorCalls :
          (c.step = "bindQueue" /\ pubChan = "open") =>
              (c.call.exchange \in exchanges /\ c.call.queue \in queues)
    /\ \A t \in ErrorAsserted : Bound(ErrorCall(errTasks[t]))
    /\ \A k \in 1..Len(setupScript) :
          (k < setupPos /\ setupScript[k].op = "assertQueue") => Bound(setupScript[k])

\* assertQueue("error", errType, "errors") has returned although nobody asserted
\* exchange "error" before it
C19_Witness ==
    /\ \A k \in 1..Len(setupScript) : setupScript[k].exchange # ErrorExchange
    /\ \E t \in ErrorAsserted : Bound(ErrorCall(errTasks[t]))

\* C20: attemptMessageData calls the caller's error handler exactly once for an
\* envelope whose payload the schema refuses, the envelope still carrying that
\* payload, and never for an envelope whose payload the schema accepts.
C20_OnErrorOnce ==
    \A d \in Deliveries : \A re \in StageEntries(d, "attemptMessageData") :
        LET run == dlv[d].runs[re[1]]
            e == run.trace[re[2]]
        IN IF JoiValid(e.input)
           THEN e.pass /\ e.handled = 0
           ELSE /\ ~e.pass
                /\ e.handled = 1
                /\ e.output = e.input
                /\ e.errs = 0
                /\ run.result = "failed" /\ run.handled = 1

\* attemptMessageData has refused one envelope and passed another
C20_Witness ==
    \E d1, d2 \in Deliveries :
        /\ \E re \in StageEntries(d1, "attemptMessageData") :
              dlv[d1].runs[re[1]].trace[re[2]].handled = 1
        /\ \E re \in StageEntries(d2, "attemptMessageData") :
              /\ dlv[d2].runs[re[1]].trace[re[2]].pass
              /\ dlv[d2].runs[re[1]].trace[re[2]].handled = 0

\* the request c asserts what the broker already holds
ReAsserted(c) ==
    \/ c.step = "assertExchange" /\ c.call.exchange \in exchanges
    \/ c.step = "assertQueue" /\ c.call.queue \in queues
    \/ c.step = "bindQueue" /\
          <<c.call.queue, c.call.exchange, c.call.routingKey>> \in bindings

\* the broker holds what it held, and the publisher channel is still open
SameTopology == topoVars' = topoVars /\ pubChan' = "open"

\* C18: a request of assertExchange or assertQueue for an exchange, a queue or a
\* binding that the broker already holds is accepted and leaves the exchanges,
\* queues, bindings and their options as they were: asserting twice gives what
\* asserting once gave.
C18_AssertTwice ==
    [][ /\ \A c \in SetupCalls :
              ( /\ ReAsserted(c) /\ pubChan = "open"
                /\ <<setupPc, setupPos, setupStep>>' # <<setupPc, setupPos, setupStep>> )
              => SameTopology
        /\ \A t \in 1..Len(errTasks) :
              ( /\ errTasks[t].state = "running"
                /\ errTasks[t].step <= Len(AssertQueueOrder)
                /\ ReAsserted([call |-> ErrorCall(errTasks[t]),
                               step |-> ThrowErrorOrder[errTasks[t].step]])
                /\ pubChan = "open"
                /\ errTasks'[t] # errTasks[t] )
              => SameTopology ]_vars

\* the callback asserted exchange "orders" twice and two throwError calls
\* asserted ("error", errType, "errors"): the broker holds each of them once
C18_Witness ==
    /\ SetupDone /\ Len(setupScript) = 2
    /\ Cardinality({e \in declared : e.name = AppExchange}) = 1
    /\ Cardinality(ErrorAsserted) >= 2
    /\ Cardinality({e \in declared : e.name = ErrorExchange}) = 1
    /\ Cardinality({b \in bindings : b[1] = ErrorQueue}) = 1

----------------------------------------------------------------------------
(* Whose delivery an acknowledgment settles *)

\* the calls of the ackMessage of envelope d: by the stages and by the handlers
OwnAcks(d) == SumOf(dlv[d].runs, "acks") + dlv[d].appAcks

CanSend(s) == subs[s].chan \in {"open", "failing"}

\* C14: the ack frames sent for a delivery are those of the calls of its own
\* envelope's ackMessage, on the channel that delivered it: a delivery is
\* outstanding on its own subscription only, stays outstanding until its own
\* ackMessage is called whatever other envelopes are acknowledged meanwhile, and
\* no acknowledgment closes the publisher channel.
C14_AckOwnDelivery ==
    /\ \A d \in Deliveries :
          /\ dlv[d].acksSent <= OwnAcks(d)
          /\ CanSend(dlv[d].sub) => dlv[d].acksSent = OwnAcks(d)
          /\ \A s \in 1..Len(subs) :
                d \in subs[s].unacked => (s = dlv[d].sub /\ OwnAcks(d) = 0)
          /\ (OwnAcks(d) = 0 /\ CanSend(dlv[d].sub)) => d \in subs[dlv[d].sub].unacked
    /\ pubChan = "closed" => \E i \in Published : ~published[i].accepted

\* two envelopes of one subscription were with their handlers; the later one has
\* been acknowledged and the earlier one is still outstanding
C14_Witness ==
    \E d1, d2 \in Deliveries :
        /\ d2 < d1 /\ dlv[d1].sub = dlv[d2].sub
        /\ Passed(dlv[d1].runs) > 0 /\ Passed(dlv[d2].runs) > 0
        /\ dlv[d1].appAcks = 1 /\ dlv[d1].acksSent = 1
        /\ d1 \notin subs[dlv[d1].sub].unacked
        /\ dlv[d2].appAcks = 0 /\ d2 \in subs[dlv[d2].sub].unacked

----------------------------------------------------------------------------
(* Order of the envelopes of one subscription *)

Increasing(seq) == \A i, j \in 1..Len(seq) : i < j => seq[i] < seq[j]

Range(seq) == {seq[i] : i \in 1..Len(seq)}

\* C16: on every subscription the envelopes go to message$.next in the order
\* in which the broker pushed their deliveries on its channel, each emitted
\* delivery once, and the envelopes that the stages pass reach the handlers in
\* that same relative order.
C16_DeliveryOrder ==
    \A s \in 1..Len(subs) :
        /\ Increasing(subs[s].emits)
        /\ Increasing(subs[s].passes)
        /\ Range(subs[s].emits) = {d \in Deliveries : dlv[d].sub = s /\ dlv[d].emitted}
        /\ Range(subs[s].passes) =
              {d \in Deliveries : dlv[d].sub = s /\ Passed(dlv[d].runs) > 0}

\* two envelopes of one subscription reached a handler, with a delivery of that
\* subscription between them that did not
C16_Witness ==
    \E s \in 1..Len(subs) :
        /\ Len(subs[s].passes) = 2
        /\ subs[s].passes[2] = subs[s].passes[1] + 2
        /\ dlv[subs[s].passes[1] + 1].sub = s

----------------------------------------------------------------------------
(* From publish to the envelope *)

\* the deliveries, by consume, of the message sent by entry i of published
EnvelopesOf(i) == {d \in Deliveries : dlv[d].src = i /\ dlv[d].kind = "consume"}

----------------------------------------------------------------------------
(* Two consumers: channels and credit windows *)

TwoConsumers == 1..(MaxConsumers + 1)

\* subscription t is consuming, holds fewer deliveries than its prefetch, and a
\* message waits in its queue
Waiting(t) ==
    /\ t <= Len(subs)
    /\ subs[t].chan = "open" /\ subs[t].consuming
    /\ Cardinality(subs[t].unacked) < subs[t].chanPrefetch
    /\ ready[subs[t].queue] # <<>>
    /\ Len(dlv) < MaxDeliveries

OwnChannels ==
    \A s, t \in 1..Len(subs) :
        (s # t /\ subs[s].chan # "none" /\ subs[t].chan # "none")
        => subs[s].chanId # subs[t].chanId

\* C15: the subscriptions of separate consume calls are on separate channels,
\* and the broker can push to a subscription that holds fewer deliveries than
\* its own prefetch while a message waits in its queue, whatever the other
\* subscription holds and whether or not that one ever acknowledges.  With the
\* broker pushing whenever it can (PairFairness) the waiting message is
\* delivered.
C15_OwnCreditWindow ==
    /\ OwnChannels
    /\ \A t \in TwoConsumers : Waiting(t) => CanDeliver(t)

\* the same under PairFairness, as a property of the behaviours: a subscription
\* does not stay waiting
PairDelivers == \A t \in TwoConsumers : Waiting(t) ~> ~Waiting(t)

\* one subscription holds its full prefetch, none of it acknowledged, and the
\* other one has since been given the rest of the queue
C15_Witness ==
    \E s, t \in 1..Len(subs) :
        /\ s # t /\ subs[s].kind = "consume" /\ subs[t].kind = "consume"
        /\ subs[s].chan = "open" /\ subs[t].chan = "open"
        /\ Cardinality(subs[s].unacked) = subs[s].prefetch
        /\ \A d \in subs[s].unacked : dlv[d].acksSent = 0
        /\ \E d \in Deliveries :
              /\ dlv[d].sub = t
              /\ \A e \in subs[s].unacked : e < d
        /\ ready[AppQueue] = <<>>

----------------------------------------------------------------------------
(* What publish tells its caller *)

Calls == 1..Len(calls)

\* C11: a publish call whose payload cannot be serialized throws, from the call
\* itself and not through a promise it returns, and sends nothing on the
\* publisher channel.
C11_SerializationThrows ==
    /\ \A c \in Calls :
          ~CanStringify(calls[c].value) =>
              /\ calls[c].outcome.thrown
              /\ calls[c].outcome.promise = "none"
              /\ ~calls[c].outcome.sent
    /\ Len(published) = Cardinality({c \in Calls : calls[c].outcome.sent})

\* C12: the value the caller of publish obtains for a message that was sent is
\* the boolean that the publish of the publisher channel returned: whether its
\* write buffer took the message.
C12_ReportsAccepted ==
    \A c \in Calls :
        calls[c].outcome.sent =>
            /\ calls[c].outcome.accepted \in {"true", "false"}
            /\ calls[c].outcome.result = calls[c].outcome.accepted

----------------------------------------------------------------------------
(* The Subject of consume is hot *)

\* the envelope of d went to message$.next while nobody was subscribed
Unheard(d) == dlv[d].kind = "consume" /\ dlv[d].emitted /\ dlv[d].runs = <<>>

\* what holds of the deliveries of consume in one state
HotNow ==
    \A d \in Deliveries : dlv[d].kind = "consume" =>
        /\ subs[dlv[d].sub].step > Len(ConsumerStartupOrder)
        /\ Len(dlv[d].runs) <= Len(subs[dlv[d].sub].subscribers)
        /\ Unheard(d) =>
              /\ dlv[d].acksSent = 0 /\ dlv[d].appAcks = 0
              /\ CanSend(dlv[d].sub) => d \in subs[dlv[d].sub].unacked

\* C22: an envelope of consume goes to the subscribers attached when its
\* delivery arrives and to nobody later: the subscriber runs of a delivery
\* never change afterwards, a delivery that arrived while nobody was subscribed
\* is never acknowledged and stays outstanding on its channel, and there is no
\* delivery for a consume call whose listener has not started consuming.
C22_HotSubject ==
    [][ /\ HotNow'
        /\ \A d \in Deliveries :
              /\ dlv'[d].runs = dlv[d].runs
              /\ dlv'[d].emitted = dlv[d].emitted
              /\ Unheard(d) => dlv'[d] = dlv[d] ]_vars

\* a delivery arrived before anybody subscribed; a subscriber is attached now,
\* the delivery is still outstanding and keeps the whole prefetch of its channel
\* while a further message waits
C22_Witness ==
    \E d \in Deliveries :
        /\ Unheard(d)
        /\ Len(subs[dlv[d].sub].subscribers) = 1
        /\ d \in subs[dlv[d].sub].unacked
        /\ Cardinality(subs[dlv[d].sub].unacked) = subs[dlv[d].sub].chanPrefetch
        /\ ready[subs[dlv[d].sub].queue] # <<>>

----------------------------------------------------------------------------
(* replyData and ackMessage of an error record *)

ErrDeliveries == {d \in Deliveries : dlv[d].kind = "consumeErrors"}

\* the error record of d is outstanding for as long as nobody called its
\* ackMessage
HeldUntilAcked ==
    \A d \in ErrDeliveries :
        OwnAcks(d) = 0 =>
            /\ dlv[d].acksSent = 0
            /\ CanSend(dlv[d].sub) => d \in subs[dlv[d].sub].unacked

\* C23: replyData of an error record publishes one message and does nothing to
\* the delivery of the record, which stays outstanding until its own ackMessage
\* is called, however often it was replayed; ackMessage of an error record
\* sends its ack and publishes nothing.
C23_ReplyOnlyPublishes ==
    [][ /\ HeldUntilAcked'
        /\ \A d \in ErrDeliveries :
              /\ dlv'[d].replies > dlv[d].replies =>
                    /\ subs' = subs
                    /\ dlv'[d].acksSent = dlv[d].acksSent
                    /\ dlv'[d].appAcks = dlv[d].appAcks
                    /\ Len(published') = Len(published) + 1
                    /\ published'[Len(published')].by = "replyData"
                    /\ published'[Len(published')].origin = d
              /\ dlv'[d].appAcks > dlv[d].appAcks =>
                    /\ published' = published
                    /\ ready' = ready
                    /\ pubChan' = pubChan
                    /\ dlv'[d].replies = dlv[d].replies ]_vars

\* an error record was replayed and its delivery is still outstanding, with no
\* ack sent
C23_Witness ==
    \E d \in ErrDeliveries :
        /\ dlv[d].replies > 0
        /\ \E i \in Replays : published[i].origin = d /\ published[i].accepted
        /\ dlv[d].appAcks = 0 /\ dlv[d].acksSent = 0
        /\ d \in subs[dlv[d].sub].unacked

----------------------------------------------------------------------------
(* The order of the catch block of a schema filter *)

FilterRuns == 1..Len(filterRuns)

ErrorPath == {"throwError", "onError", "published", "publishFailed"}

\* C21: when a schema filter refuses an envelope, ackMessage has been called
\* before throwError or the handler is, and so before the error record is
\* published or its publication fails; a predicate that is left, by return false
\* or by the exception of the handler, has acknowledged the envelope once.
C21_AckBeforeErrorPath ==
    \A n \in FilterRuns :
        LET r == filterRuns[n]
        IN /\ \A i \in DOMAIN r.log :
                 r.log[i] \in ErrorPath =>
                     \E j \in DOMAIN r.log : j < i /\ r.log[j] = "ackMessage"
           /\ r.state \in {"dropped", "thrown"} => CountOf(r.log, "ackMessage") = 1
           /\ r.errTask # "none" => CountOf(r.log, "ackMessage") = 1
           /\ r.state = "passed" => r.log = <<>>

\* a handler of attemptMessageData threw and a publication started by
\* assertData failed, both for envelopes acknowledged before
C21_Witness ==
    /\ \E n \in FilterRuns :
          /\ filterRuns[n].stage = "attemptMessageData"
          /\ filterRuns[n].state = "thrown"
          /\ filterRuns[n].log = <<"ackMessage", "onError">>
    /\ \E n \in FilterRuns :
          /\ filterRuns[n].stage = "assertData"
          /\ filterRuns[n].errTask = "failed"
          /\ filterRuns[n].log = <<"ackMessage", "throwError", "publishFailed">>

----------------------------------------------------------------------------
(* safeTransaction: commit or rollback *)

\* the safeTransaction calls that settled after the handler's promise settled
\* and in which no rollback was refused by the database
Finished ==
    {i \in DOMAIN transactions :
        /\ transactions[i].settled # "pending"
        /\ transactions[i].handler \in Settlements
        /\ transactions[i].db # "open"}

\* C24: when safeTransaction has settled, the transaction was finished by
\* exactly one call: commit() and no rollback() when the handler resolved,
\* rollback() and no commit() when the handler rejected.
C24_CommitOrRollback ==
    \A i \in Finished :
        LET t == transactions[i]
        IN /\ t.db \in {"committed", "rolledBack"}
           /\ t.handler = "resolved" => t.log = <<"commit">> /\ t.db = "committed"
           /\ t.handler = "rejected" => t.log = <<"rollback">> /\ t.db = "rolledBack"

----------------------------------------------------------------------------
(* The error middlewares: one next per stage, one response *)

\* the status the error of a request stands for
StatusOf(r) ==
    CASE r.error.class = "HttpServerException" -> r.error.status
      [] r.error.class \in {"ValidationError", "JwtError", "MulterError"} ->
           WrongParameterStatus
      [] r.error.class = "Error" /\ r.transform = "maps" -> NotFoundStatus
      [] OTHER -> ServerErrorStatus

\* C25: for a request whose route handler failed, each of asyncMiddleware, the
\* two transform middlewares and the exception handler calls next once and never
\* twice, and one response is sent and never two; with the default exception
\* handler its status is that of the HttpServerException the error is or was
\* turned into (400 for a Joi validation error, a JwtError and a MulterError)
\* and 500 for any other error.
C25_ErrorPipeline ==
    \A n \in DOMAIN requests :
        LET r == requests[n]
        IN /\ \A i \in ErrorStages : r.nexts[i] <= 1
           /\ Len(r.responses) <= 1
           /\ RequestDone(r) =>
                 /\ \A i \in ErrorStages : r.nexts[i] = 1
                 /\ Len(r.responses) = 1
                 /\ r.rewrite = "none" => r.responses = <<StatusOf(r)>>

\* a request that failed with a JwtError went through every stage and was
\* answered 400 by the default handler
C25_Witness ==
    \E n \in DOMAIN requests :
        /\ RequestDone(requests[n])
        /\ requests[n].error.class = "JwtError"
        /\ requests[n].rewrite = "none"
        /\ requests[n].responses = <<WrongParameterStatus>>
        /\ \A i \in ErrorStages : requests[n].nexts[i] = 1

----------------------------------------------------------------------------
(* signToken with a refresh token *)

\* the refresh token of call c is one that the secret signed, for the user of
\* the call, with an expiry that is not before the second of the call
Renewable(c) ==
    /\ c.refreshToken.payload.sub = c.userId
    /\ c.refreshToken.payload.hasExp
    /\ c.refreshToken.payload.exp >= c.now

NewAccessToken(c) ==
    /\ c.outcome.accessToken # NoToken
    /\ c.outcome.accessToken.payload.sub = c.userId
    /\ c.outcome.accessToken.payload.exp > c.now

\* C26: signToken with a refresh token signed by the secret returns a new
\* access token and the same refresh token when the token's subject is userId,
\* it has an expiry and the expiry is not before the current time, and throws a
\* JwtError and returns no token otherwise; without a refresh token it returns a
\* new access token and a new refresh token for userId.
C26_RefreshOrJwtError ==
    \A n \in DOMAIN signCalls :
        LET c == signCalls[n]
        IN /\ c.refreshToken = NoToken =>
                 /\ c.outcome.error = "none"
                 /\ NewAccessToken(c)
                 /\ c.outcome.refreshToken # NoToken
                 /\ c.outcome.refreshToken.payload.sub = c.userId
           /\ c.refreshToken # NoToken /\ c.refreshToken.secret = "env.JWT_SECRET" =>
                 IF Renewable(c)
                 THEN /\ c.outcome.error = "none"
                      /\ NewAccessToken(c)
                      /\ c.outcome.refreshToken = c.refreshToken
                 ELSE /\ c.outcome.error = "JwtError"
                      /\ c.outcome.accessToken = NoToken
                      /\ c.outcome.refreshToken = NoToken

====
